---- MODULE Spec2Model ----
(***************************************************************************)
(* Visitor.save_show of src/vistopian/visitor.py as a state machine: the   *)
(* episode loop, the single-file download with its timeout retries, and    *)
(* download_m3u8 with its thread pool, merge manifest, concatenation and   *)
(* cleanup.                                                                *)
(*                                                                         *)
(* The catalog is immutable and the loop reads each article exactly once,  *)
(* in order, so an article's content is drawn when the loop reaches it;    *)
(* the number of articles is fixed by Init.  The nested loops over parts   *)
(* and over the articles of a part hold no code between them, so the model *)
(* iterates the concatenation of the parts.  A manifest is drawn when      *)
(* m3u8.load fetches it.  urlretrieve, m3u8.load, ffmpeg and mutagen are   *)
(* the environment: each call takes one of the outcomes listed with it.    *)
(*                                                                         *)
(* Four specifications share these actions.  Spec runs save_show over      *)
(* catalogs of up to MaxEpisodes articles whose playlists hold up to       *)
(* ShowSegs segments; SpecEpisode runs it over catalogs of one article     *)
(* whose playlist holds up to MaxSegs segments, starting with or without   *)
(* a scratch folder left by an earlier run; SpecPool runs it over two      *)
(* video episodes whose playlists hold one segment more than the pool has  *)
(* threads and whose fetches succeed; SpecSelect runs the scan for the     *)
(* best quality alone, one candidate a step.                               *)
(***************************************************************************)
EXTENDS Integers, Sequences, FiniteSets, TLC

\* ------------------------------------------------------------------ bounds
MaxEpisodes == 2
ShowSegs == 1
MaxSegs == 2
MaxCand == 3

\* ------------------------------------------------------- program constants
\* `while count <= 5` and `if count > 5`
RetryLimit == 5
\* ThreadPoolExecutor(max_workers=10)
max_workers == 10

\* ------------------------------------------------------------- input sets
\* Decimal strings, as sequences of digits.
SortNumbers == {<<1>>, <<2>>, <<0, 2>>}
Qualities == {<<4, 8, 0>>, <<7, 2, 0>>, <<1, 0, 8, 0>>}
\* Titles, as sequences of characters.
Titles == {<<"a">>, <<"x", "/", "y">>, <<"x", "\\", "y">>}
MediaTypes == {"audio", "video", "text"}
\* Resolved segment URLs, as sequences of path components.
SegURIs == {<<"d1", "s1.ts">>, <<"d1", "s2.ts">>, <<"d2", "s1.ts">>}
\* A playlist of one segment more than the pool has threads.
PoolNames == <<"p01.ts", "p02.ts", "p03.ts", "p04.ts", "p05.ts", "p06.ts",
               "p07.ts", "p08.ts", "p09.ts", "p10.ts", "p11.ts">>
LongManifest == [i \in 1..(max_workers + 1) |-> <<"d1", PoolNames[i]>>]
\* What one urlretrieve call can do: succeed, or fail by socket.timeout or by
\* another error, before the local file is opened (urlopen) or after (read).
Outcomes == {"ok", "timeout_conn", "timeout_read", "error_conn", "error_read"}
\* The episodes argument: None, or a set of integers.
None == [given |-> FALSE, set |-> {}]
EpisodeFilters == {None, [given |-> TRUE, set |-> {2}]}

SeqsUpTo(S, n) == UNION {[1..k -> S] : k \in 0..n}

\* int(str)
RECURSIVE ToInt(_)
ToInt(s) == IF s = <<>> THEN 0
            ELSE ToInt(SubSeq(s, 1, Len(s) - 1)) * 10 + s[Len(s)]

\* The i-th candidate's media_key_full_url.
CandidateUrl(i) == <<"video", i>>
AudioUrl == <<"audio", 0>>
NoUrl == <<"none", 0>>

MediaLists == {[i \in 1..Len(qs) |-> [quality |-> qs[i], media_key_full_url |-> CandidateUrl(i)]] :
                  qs \in SeqsUpTo(Qualities, MaxCand)}

\* An article of the catalog; media_files is read for a video only.
Articles == {[sort_number |-> s, title |-> t, media_type |-> m, media_files |-> ml] :
                s \in SortNumbers, t \in Titles, m \in {"video"}, ml \in MediaLists}
            \cup {[sort_number |-> s, title |-> t, media_type |-> m, media_files |-> <<>>] :
                s \in SortNumbers, t \in Titles, m \in MediaTypes \ {"video"}}

\* Playlists m3u8.load can return (segment URLs already joined to the base):
\* up to n segments, each URL named once.
Manifests(n) == {m \in SeqsUpTo(SegURIs, n) :
                    \A i, j \in DOMAIN m : m[i] = m[j] => i = j}

\* ------------------------------------------------------------- filesystem
\* A file's content: absent, old (there before the run), partial (a transfer
\* that stopped), full (all of URL `of`), merged (a complete concatenation),
\* corrupt (a concatenation of something else than the manifest's segments).
File(st, u) == [st |-> st, of |-> u]
Absent == File("absent", <<>>)
Old == File("old", <<>>)
Partial == File("partial", <<>>)
Full(u) == File("full", u)
Merged == File("merged", <<>>)
Corrupt == File("corrupt", <<>>)

\* title.replace("/", "\\")
Sanitize(t) == [i \in DOMAIN t |-> IF t[i] = "/" THEN "\\" ELSE t[i]]

\* show_dir / "{}.mp3".format(title), show_dir / "{}.mkv".format(title)
Path(title, ext) == [stem |-> Sanitize(title), ext |-> ext]

Stems == {Sanitize(t) : t \in Titles}
Targets == {[stem |-> s, ext |-> e] : s \in Stems, e \in {"mp3", "mkv"}}

\* Path(ts).name
Name(ts) == ts[Len(ts)]
SegNames == {Name(u) : u \in SegURIs} \cup {Name(LongManifest[i]) : i \in DOMAIN LongManifest}

NoList == [written |-> FALSE, entries |-> <<>>]
NoDir == [exists |-> FALSE, segs |-> [n \in SegNames |-> Absent], filelist |-> NoList]

\* --------------------------------------------------------------- download
\* One call of download(url, fname): pc is where it stands, count the code's
\* variable, tries the urlretrieve calls made so far.
Task(pc, count, tries) == [pc |-> pc, count |-> count, tries |-> tries]
Idle == Task("idle", 0, 0)
Queued == Task("queued", 0, 0)
Running == {"first", "retry", "unlink"}
Terminal == {"ok", "failed", "returned", "error", "fnf"}

IsTimeout(o) == o \in {"timeout_conn", "timeout_read"}

\* urlretrieve(url, fname): the file at fname after the call.
UrlRetrieve(old, url, o) ==
    CASE o = "ok" -> Full(url)
      [] o \in {"timeout_read", "error_read"} -> Partial
      [] OTHER -> old

\* A loop that stops one timeout early.
KeepRetryingOneLess(count) == count < RetryLimit

\* while count <= 5
KeepRetrying(count) == count <= RetryLimit

\* if count > 5
GaveUp(count) == count > RetryLimit

\* One urlretrieve call of download, first or retried, with outcome o.
Attempt(d, o) ==
    IF o = "ok" THEN Task("ok", 0, 0)
    ELSE IF ~IsTimeout(o) THEN Task("error", 0, 0)
    ELSE LET c == IF d.pc = "first" THEN 1 ELSE d.count + 1
             t == d.tries + 1
         IN  IF KeepRetrying(c) THEN Task("retry", c, t)
             ELSE IF GaveUp(c) THEN Task("unlink", c, t)
             ELSE Task("returned", c, t)

\* fname.unlink() of download: FileNotFoundError when there is no file.
Unlink(d, file) ==
    IF file = Absent THEN Task("fnf", d.count, d.tries)
    ELSE Task("failed", d.count, d.tries)

VARIABLES
    episodes, no_tag, no_cover, catalog_len,
    files, dirs,
    pc, fname, media_files, scan, best_quality, video_m3u8, ts_list, pool, dl,
    files0, seen, visited, report, last, cause, dispatched, finished

inputs == <<episodes, no_tag, no_cover, catalog_len>>
fs == <<files, dirs>>
select == <<media_files, scan, best_quality, video_m3u8>>
locals == <<fname, select, ts_list, pool, dl>>
ghost == <<files0, seen, visited, report, last, cause, dispatched, finished>>
vars == <<inputs, fs, pc, locals, ghost>>


NoPath == [stem |-> <<>>, ext |-> "none"]
NoLast == [exhausted |-> FALSE, incomplete |-> FALSE]

\* no_tag and no_cover: the code reads them only one after the other, on the
\* audio file just fetched.
Flags == {<<FALSE, FALSE>>, <<TRUE, TRUE>>}

\* The target files there before the run: none, or those of one title.
InitialFiles == {[t \in Targets |-> IF t.stem \in S THEN Old ELSE Absent] :
                    S \in {{}, {<<"a">>}}}

\* A scratch folder an earlier, failed run left: one segment whole, one cut
\* short, and the merge manifest that named them.
Leftover ==
    [exists |-> TRUE,
     segs |-> [n \in SegNames |-> IF n = "s1.ts" THEN Full(<<"d1", "s1.ts">>)
                                  ELSE IF n = "s2.ts" THEN Partial ELSE Absent],
     filelist |-> [written |-> TRUE, entries |-> <<"s1.ts", "s2.ts">>]]

InitWith(lens, folders) ==
    /\ episodes \in EpisodeFilters
    /\ \E f \in Flags : no_tag = f[1] /\ no_cover = f[2]
    /\ catalog_len \in lens
    /\ files \in InitialFiles
    /\ files0 = files
    /\ dirs \in {[s \in Stems |-> d] : d \in folders}
    /\ pc = "start"
    /\ fname = NoPath
    /\ media_files = <<>>
    /\ scan = 0
    /\ best_quality = <<>>
    /\ video_m3u8 = NoUrl
    /\ ts_list = <<>>
    /\ pool = <<>>
    /\ dl = Idle
    /\ seen = <<>>
    /\ visited = <<>>
    /\ report = <<>>
    /\ last = NoLast
    /\ cause = "none"
    /\ dispatched = FALSE
    /\ finished = <<>>

Init == InitWith(0..MaxEpisodes, {NoDir})

InitEpisode == InitWith(0..1, {NoDir, Leftover})

\* ---------------------------------------------------------------- helpers
\* A filter that lets every article through.
InFilterAll(a) == TRUE

\* not (episodes is not None and int(article["sort_number"]) not in episodes)
InFilter(a) == ~episodes.given \/ ToInt(a.sort_number) \in episodes.set

\* A test that never finds the file.
ExistsNever(path) == FALSE

\* A test made for audio files only.
ExistsAudioOnly(path) == path.ext = "mp3" /\ files[path] # Absent

\* fname.exists()
Exists(path) == files[path] # Absent

\* fname of an audio or video article
TargetOf(a) == IF a.media_type = "audio" THEN Path(a.title, "mp3")
               ELSE Path(a.title, "mkv")

\* A scan that also takes a candidate of equal quality.
ScanStepTies(best, media_file) ==
    IF ToInt(media_file.quality) >= ToInt(best.quality)
    THEN [quality |-> media_file.quality, url |-> media_file.media_key_full_url]
    ELSE best

\* if int(media_file['quality']) > int(best_quality): take the candidate
ScanStep(best, media_file) ==
    IF ToInt(media_file.quality) > ToInt(best.quality)
    THEN [quality |-> media_file.quality, url |-> media_file.media_key_full_url]
    ELSE best

\* media_files[0], before the scan
FirstCandidate(ml) == [quality |-> ml[1].quality, url |-> ml[1].media_key_full_url]

\* for media_file in article['media_files'], from candidate i on
RECURSIVE BestFrom(_, _, _)
BestFrom(ml, i, best) ==
    IF i > Len(ml) THEN best
    ELSE BestFrom(ml, i + 1, ScanStep(best, ml[i]))

\* video_m3u8 after the scan
SelectBest(ml) == BestFrom(ml, 1, FirstCandidate(ml)).url

\* The lines in the order the downloads ended.
FilelistAsCompleted(ts) == [i \in DOMAIN ts |-> Name(ts[finished[i]])]

\* The lines written to filelist.txt, each a file of the scratch folder.
FilelistEntries(ts) == [i \in DOMAIN ts |-> Name(ts[i])]

\* What the pool of the episode that ends looked like.
Exhausted == \E i \in DOMAIN pool : pool[i].pc \in {"failed", "fnf", "returned"}
Incomplete == \E i \in DOMAIN pool : pool[i].pc # "ok"

\* What the loop met: the article's number, and whether its file was there
\* before the run.
Visit(a, target) ==
    [sort |-> ToInt(a.sort_number),
     existed |-> target \in Targets /\ files0[target] # Absent]

ForgetLocals ==
    /\ fname' = NoPath
    /\ video_m3u8' = NoUrl
    /\ ts_list' = <<>>
    /\ pool' = <<>>
    /\ dl' = Idle
    /\ finished' = <<>>
    /\ UNCHANGED <<media_files, scan, best_quality>>

\* The episode is over and the loop goes on: `continue`, or the end of the body.
NextEpisode(res, why) ==
    /\ pc' = "loop"
    /\ report' = Append(report, [target |-> fname, res |-> res, why |-> why])
    /\ last' = [exhausted |-> Exhausted, incomplete |-> Incomplete]
    /\ cause' = "none"
    /\ ForgetLocals

\* An exception leaves save_show.
Abort(why) ==
    /\ pc' = "aborted"
    /\ cause' = why
    /\ ForgetLocals
    /\ UNCHANGED report

\* A video branch without its handler: the exception leaves save_show.
OnVideoErrorRaise(why) ==
    /\ Abort(why)
    /\ UNCHANGED last

\* except Exception: the handler of the video branch takes over.
OnVideoError(why) ==
    /\ pc' = "except"
    /\ cause' = why
    /\ UNCHANGED <<report, last, locals, finished>>

\* ---------------------------------------------------------------- actions
\* get_catalog, get_content_show, show_dir.mkdir, save_meta
Start ==
    /\ pc = "start"
    /\ \/ /\ pc' = "loop"
          /\ UNCHANGED <<cause>>
       \/ /\ pc' = "aborted"
          /\ cause' = "meta"
    /\ UNCHANGED <<inputs, fs, locals, files0, seen, visited, report, last, dispatched, finished>>

\* The loops are exhausted.
EndOfCatalog ==
    /\ pc = "loop"
    /\ Len(seen) = catalog_len
    /\ pc' = "done"
    /\ UNCHANGED <<inputs, fs, locals, ghost>>

\* `continue` of the episode filter
FilteredOut(a) ==
    /\ pc = "loop"
    /\ Len(seen) < catalog_len
    /\ ~InFilter(a)
    /\ seen' = Append(seen, ToInt(a.sort_number))
    /\ UNCHANGED <<inputs, fs, pc, locals, files0, visited, report, last, cause,
                   dispatched, finished>>

\* raise NotImplementedError
Unsupported(a) ==
    /\ pc = "loop"
    /\ Len(seen) < catalog_len
    /\ InFilter(a)
    /\ a.media_type \notin {"audio", "video"}
    /\ seen' = Append(seen, ToInt(a.sort_number))
    /\ visited' = Append(visited, Visit(a, NoPath))
    /\ last' = NoLast
    /\ Abort("kind")
    /\ UNCHANGED <<inputs, fs, files0, dispatched>>

\* fname exists: "跳过已存在"
SkipExisting(a) ==
    /\ pc = "loop"
    /\ Len(seen) < catalog_len
    /\ InFilter(a)
    /\ a.media_type \in {"audio", "video"}
    /\ Exists(TargetOf(a))
    /\ seen' = Append(seen, ToInt(a.sort_number))
    /\ visited' = Append(visited, Visit(a, TargetOf(a)))
    /\ report' = Append(report, [target |-> TargetOf(a), res |-> "skipped", why |-> "none"])
    /\ last' = NoLast
    /\ UNCHANGED <<inputs, fs, pc, locals, files0, cause, dispatched, finished>>

\* An audio article whose file is missing: download(...) is called.
StartAudio(a) ==
    /\ pc = "loop"
    /\ Len(seen) < catalog_len
    /\ InFilter(a)
    /\ a.media_type = "audio"
    /\ ~Exists(TargetOf(a))
    /\ seen' = Append(seen, ToInt(a.sort_number))
    /\ visited' = Append(visited, Visit(a, TargetOf(a)))
    /\ fname' = TargetOf(a)
    /\ dl' = Task("first", 0, 0)
    /\ pc' = "audio"
    /\ last' = NoLast
    /\ UNCHANGED <<inputs, fs, select, ts_list, pool, files0, report, cause,
                   dispatched, finished>>

\* A video article whose file is missing: the best candidate is chosen.
StartVideo(a) ==
    /\ pc = "loop"
    /\ Len(seen) < catalog_len
    /\ InFilter(a)
    /\ a.media_type = "video"
    /\ ~Exists(TargetOf(a))
    /\ seen' = Append(seen, ToInt(a.sort_number))
    /\ visited' = Append(visited, Visit(a, TargetOf(a)))
    /\ last' = NoLast
    /\ IF a.media_files = <<>>
       THEN \* article['media_files'][0]: IndexError
            Abort("no_media")
       ELSE /\ fname' = TargetOf(a)
            /\ video_m3u8' = SelectBest(a.media_files)
            /\ pc' = "m3u8_load"
            /\ UNCHANGED <<media_files, scan, best_quality, ts_list, pool, dl,
                           report, cause, finished>>
    /\ UNCHANGED <<inputs, fs, files0, dispatched>>

\* One urlretrieve call of the audio download.
AudioAttempt(o) ==
    /\ pc = "audio"
    /\ dl.pc \in {"first", "retry"}
    /\ dl' = Attempt(dl, o)
    /\ files' = [files EXCEPT ![fname] = UrlRetrieve(@, AudioUrl, o)]
    /\ dispatched' = TRUE
    /\ UNCHANGED <<inputs, dirs, pc, fname, select, ts_list, pool, files0, seen, visited,
                   report, last, cause, finished>>

\* The audio download gives up: fname.unlink()
AudioUnlink ==
    /\ pc = "audio"
    /\ dl.pc = "unlink"
    /\ dl' = Unlink(dl, files[fname])
    /\ files' = [files EXCEPT ![fname] = Absent]
    /\ UNCHANGED <<inputs, dirs, pc, fname, select, ts_list, pool, ghost>>

\* The audio download raised: nothing catches it.
AudioRaise ==
    /\ pc = "audio"
    /\ dl.pc \in {"error", "fnf"}
    /\ Abort(IF dl.pc = "fnf" THEN "unlink" ELSE "audio_fetch")
    /\ UNCHANGED <<inputs, fs, files0, seen, visited, last, dispatched>>

\* download returned: retag, retag_cover, "下载完成"
Tag ==
    /\ pc = "audio"
    /\ dl.pc \in {"ok", "failed", "returned"}
    /\ \/ /\ no_tag /\ no_cover
          /\ NextEpisode("completed", "none")
          /\ UNCHANGED dispatched
       \/ /\ ~(no_tag /\ no_cover)
          /\ files[fname] # Absent
          /\ NextEpisode("completed", "none")
          /\ dispatched' = TRUE
       \/ /\ ~(no_tag /\ no_cover)
          /\ Abort("tag")
          /\ dispatched' = TRUE
          /\ UNCHANGED last
    /\ UNCHANGED <<inputs, fs, files0, seen, visited>>

\* A download_m3u8 that makes its scratch folder before it loads the playlist.
LoadManifestFailAfterMkdir ==
    /\ pc = "m3u8_load"
    /\ OnVideoError("manifest")
    /\ dirs' = [dirs EXCEPT ![fname.stem].exists = TRUE]
    /\ dispatched' = TRUE
    /\ UNCHANGED <<inputs, files, files0, seen, visited>>

\* m3u8.load fails
LoadManifestFail ==
    /\ pc = "m3u8_load"
    /\ OnVideoError("manifest")
    /\ dispatched' = TRUE
    /\ UNCHANGED <<inputs, fs, files0, seen, visited>>

\* m3u8.load, folder.mkdir(exist_ok=True), executor.map
LoadManifest(m) ==
    /\ pc = "m3u8_load"
    /\ ts_list' = m
    /\ dirs' = [dirs EXCEPT ![fname.stem].exists = TRUE]
    /\ pool' = [i \in DOMAIN m |-> Queued]
    /\ video_m3u8' = NoUrl
    /\ pc' = "pool"
    /\ dispatched' = TRUE
    /\ UNCHANGED <<inputs, files, fname, media_files, scan, best_quality, dl, files0,
                   seen, visited, report, last, cause, finished>>

InFlight == {i \in DOMAIN pool : pool[i].pc \in Running}

\* A pool with a thread for every call.
PoolUnbounded == TRUE

\* ThreadPoolExecutor(max_workers=10): a thread is free.
PoolHasRoom == Cardinality(InFlight) < max_workers

\* A pool thread takes the next queued call.
PoolStart(i) ==
    /\ pc = "pool"
    /\ pool[i].pc = "queued"
    /\ \A j \in 1..(i - 1) : pool[j].pc # "queued"
    /\ PoolHasRoom
    /\ pool' = [pool EXCEPT ![i] = Task("first", 0, 0)]
    /\ UNCHANGED <<inputs, fs, pc, fname, select, ts_list, dl, ghost>>

\* The order in which the downloads end, kept for playlists of up to MaxSegs
\* segments.
Settle(i, d) == IF d.pc \in Terminal /\ Len(ts_list) <= MaxSegs
                THEN Append(finished, i) ELSE finished

\* One urlretrieve call of segment i's download.
PoolAttempt(i, o) ==
    /\ pc = "pool"
    /\ pool[i].pc \in {"first", "retry"}
    /\ LET d == Attempt(pool[i], o) IN
        /\ pool' = [pool EXCEPT ![i] = d]
        /\ finished' = Settle(i, d)
    /\ dirs' = [dirs EXCEPT ![fname.stem].segs[Name(ts_list[i])] =
                                UrlRetrieve(@, ts_list[i], o)]
    /\ UNCHANGED <<inputs, files, pc, fname, select, ts_list, dl, files0,
                   seen, visited, report, last, cause, dispatched>>

\* Segment i's download gives up: fname.unlink()
PoolUnlink(i) ==
    /\ pc = "pool"
    /\ pool[i].pc = "unlink"
    /\ LET d == Unlink(pool[i], dirs[fname.stem].segs[Name(ts_list[i])]) IN
        /\ pool' = [pool EXCEPT ![i] = d]
        /\ finished' = Settle(i, d)
    /\ dirs' = [dirs EXCEPT ![fname.stem].segs[Name(ts_list[i])] = Absent]
    /\ UNCHANGED <<inputs, files, pc, fname, select, ts_list, dl, files0,
                   seen, visited, report, last, cause, dispatched>>

\* A pool that is left without waiting for its threads.
WriteFilelistEarly ==
    /\ pc = "pool"
    /\ dirs' = [dirs EXCEPT ![fname.stem].filelist =
                                [written |-> TRUE, entries |-> FilelistEntries(ts_list)]]
    /\ pc' = "ffmpeg"
    /\ UNCHANGED <<inputs, files, locals, ghost>>

\* The with block ends (shutdown(wait=True)); filelist.txt is written.
WriteFilelist ==
    /\ pc = "pool"
    /\ \A i \in DOMAIN pool : pool[i].pc \in Terminal
    /\ dirs' = [dirs EXCEPT ![fname.stem].filelist =
                                [written |-> TRUE, entries |-> FilelistEntries(ts_list)]]
    /\ pc' = "ffmpeg"
    /\ UNCHANGED <<inputs, files, locals, ghost>>

\* The concat demuxer reads every listed file of the scratch folder.
InputsPresent ==
    LET d == dirs[fname.stem] IN
    /\ d.filelist.entries # <<>>
    /\ \A k \in DOMAIN d.filelist.entries : d.segs[d.filelist.entries[k]] # Absent

\* What the concatenation of the listed files is.
Concat ==
    LET d == dirs[fname.stem] IN
    IF /\ d.filelist.entries = FilelistEntries(ts_list)
       /\ \A k \in DOMAIN ts_list : d.segs[Name(ts_list[k])] = Full(ts_list[k])
    THEN Merged ELSE Corrupt

\* ffmpeg.input(filelist, format='concat').output(fname, codec='copy').run():
\* it writes fname, or fails and may leave a part of it.  It fails when a
\* listed file is missing or none is listed.
Ffmpeg ==
    /\ pc = "ffmpeg"
    /\ \/ /\ InputsPresent
          /\ files' = [files EXCEPT ![fname] = Concat]
          /\ pc' = "cleanup"
          /\ UNCHANGED <<locals, ghost>>
       \/ /\ \E out \in {files[fname], Partial} :
                files' = [files EXCEPT ![fname] = out]
          /\ OnVideoError("merge")
          /\ UNCHANGED <<files0, seen, visited, dispatched>>
    /\ UNCHANGED <<inputs, dirs>>

\* A download_m3u8 that returns after the merge and leaves its scratch folder.
CleanupSkipped ==
    /\ pc = "cleanup"
    /\ NextEpisode("completed", "none")
    /\ UNCHANGED <<inputs, fs, files0, seen, visited, dispatched>>

\* The segment files and filelist.txt are unlinked, then folder.rmdir()
Cleanup ==
    /\ pc = "cleanup"
    /\ LET listed == {Name(ts_list[k]) : k \in DOMAIN ts_list}
           d == dirs[fname.stem]
           left == [n \in SegNames |-> IF n \in listed THEN Absent ELSE d.segs[n]]
       IN  IF \A n \in SegNames : left[n] = Absent
           THEN /\ dirs' = [dirs EXCEPT ![fname.stem] = NoDir]
                /\ NextEpisode("completed", "none")
           ELSE \* OSError: the directory is not empty
                /\ dirs' = [dirs EXCEPT ![fname.stem] =
                               [exists |-> TRUE, segs |-> left, filelist |-> NoList]]
                /\ OnVideoError("cleanup")
    /\ UNCHANGED <<inputs, files, files0, seen, visited, dispatched>>

\* except Exception: fname.unlink(missing_ok=True); continue
ExceptHandler ==
    /\ pc = "except"
    /\ files' = [files EXCEPT ![fname] = Absent]
    /\ NextEpisode("failed", cause)
    /\ UNCHANGED <<inputs, dirs, files0, seen, visited, dispatched>>

\* Every step but the fetch of a playlist.
Step ==
    \/ Start
    \/ EndOfCatalog
    \/ \E a \in Articles : FilteredOut(a)
    \/ \E a \in Articles : Unsupported(a)
    \/ \E a \in Articles : SkipExisting(a)
    \/ \E a \in Articles : StartAudio(a)
    \/ \E a \in Articles : StartVideo(a)
    \/ \E o \in Outcomes : AudioAttempt(o)
    \/ AudioUnlink
    \/ AudioRaise
    \/ Tag
    \/ LoadManifestFail
    \/ \E i \in DOMAIN pool : PoolStart(i)
    \/ \E i \in DOMAIN pool, o \in Outcomes : PoolAttempt(i, o)
    \/ \E i \in DOMAIN pool : PoolUnlink(i)
    \/ WriteFilelist
    \/ Ffmpeg
    \/ Cleanup
    \/ ExceptHandler

Next ==
    \/ Step
    \/ \E m \in Manifests(ShowSegs) : LoadManifest(m)

Spec == Init /\ [][Next]_vars

NextEpisodeStep ==
    \/ Step
    \/ \E m \in Manifests(MaxSegs) : LoadManifest(m)

SpecEpisode == InitEpisode /\ [][NextEpisodeStep]_vars

\* --------------------------------------------- the pool, filled to the brim
\* A show of two video episodes whose playlists are LongManifest and whose
\* fetches all succeed.
PoolArticles == {a \in Articles : /\ a.media_type = "video"
                                  /\ a.sort_number = <<1>>
                                  /\ a.title \in {<<"a">>, <<"x", "/", "y">>}
                                  /\ Len(a.media_files) = 1
                                  /\ a.media_files[1].quality = <<7, 2, 0>>}

InitPool ==
    /\ InitWith({2}, {NoDir})
    /\ episodes = None
    /\ ~no_tag
    /\ files = [t \in Targets |-> Absent]

NextPool ==
    \/ Start
    \/ EndOfCatalog
    \/ \E a \in PoolArticles : SkipExisting(a)
    \/ \E a \in PoolArticles : StartVideo(a)
    \/ LoadManifest(LongManifest)
    \/ \E i \in DOMAIN pool : PoolStart(i)
    \/ \E i \in DOMAIN pool : PoolAttempt(i, "ok")
    \/ WriteFilelist
    \/ Ffmpeg
    \/ Cleanup
    \/ ExceptHandler

SpecPool == InitPool /\ [][NextPool]_vars

\* ------------------------------------------------- the scan, step by step
InitSelect ==
    /\ episodes = None
    /\ no_tag = FALSE
    /\ no_cover = FALSE
    /\ catalog_len = 1
    /\ files = [t \in Targets |-> Absent]
    /\ files0 = files
    /\ dirs = [s \in Stems |-> NoDir]
    /\ pc = "select"
    /\ fname = Path(<<"a">>, "mkv")
    /\ media_files \in MediaLists
    /\ scan = 0
    /\ best_quality = <<>>
    /\ video_m3u8 = NoUrl
    /\ ts_list = <<>>
    /\ pool = <<>>
    /\ dl = Idle
    /\ seen = <<1>>
    /\ visited = <<[sort |-> 1, existed |-> FALSE]>>
    /\ report = <<>>
    /\ last = NoLast
    /\ cause = "none"
    /\ dispatched = FALSE
    /\ finished = <<>>

\* best_quality and video_m3u8 are set from media_files[0]
SelectFirst ==
    /\ pc = "select"
    /\ scan = 0
    /\ IF media_files = <<>>
       THEN /\ pc' = "aborted"
            /\ cause' = "no_media"
            /\ UNCHANGED <<scan, best_quality, video_m3u8>>
       ELSE /\ best_quality' = FirstCandidate(media_files).quality
            /\ video_m3u8' = FirstCandidate(media_files).url
            /\ scan' = 1
            /\ UNCHANGED <<pc, cause>>
    /\ UNCHANGED <<inputs, fs, fname, media_files, ts_list, pool, dl, files0, seen,
                   visited, report, last, dispatched, finished>>

\* One turn of `for media_file in article['media_files']`
SelectScan ==
    /\ pc = "select"
    /\ scan \in DOMAIN media_files
    /\ LET best == ScanStep([quality |-> best_quality, url |-> video_m3u8],
                            media_files[scan])
       IN  /\ best_quality' = best.quality
           /\ video_m3u8' = best.url
    /\ scan' = scan + 1
    /\ UNCHANGED <<inputs, fs, pc, fname, media_files, ts_list, pool, dl, ghost>>

\* download_m3u8(video_m3u8, fname) is called
SelectCall ==
    /\ pc = "select"
    /\ scan > Len(media_files)
    /\ pc' = "m3u8_load"
    /\ UNCHANGED <<inputs, fs, locals, ghost>>

NextSelect == SelectFirst \/ SelectScan \/ SelectCall

SpecSelect == InitSelect /\ [][NextSelect]_vars

\* ----------------------------------------------------------------- claims
Tasks == {pool[i] : i \in DOMAIN pool} \cup {dl}
Scratch == dirs[fname.stem]

\* C1: whatever order the segment downloads end in, filelist.txt as handed to
\* ffmpeg lists one file per manifest segment, entry i being the scratch file
\* segment i was downloaded to.
C1_MergeOrder ==
    pc = "ffmpeg" =>
        /\ Scratch.filelist.written
        /\ Len(Scratch.filelist.entries) = Len(ts_list)
        /\ \A i \in DOMAIN ts_list : Scratch.filelist.entries[i] = ts_list[i][Len(ts_list[i])]

\* Two segments with different file names, the second fetched before the first.
C1_Witness ==
    /\ pc = "ffmpeg"
    /\ ts_list = << <<"d1", "s2.ts">>, <<"d1", "s1.ts">> >>
    /\ finished = <<2, 1>>
    /\ pool[1].pc = "ok"
    /\ pool[2].pc = "ok"

\* The episode that ended last, while the loop stands between two episodes.
BetweenEpisodes == pc \in {"loop", "done"} /\ report # <<>>
LastReport == report[Len(report)]

\* C2: when a segment's download ran out of retries, the episode ends with no
\* file at its target path, and with no scratch folder or with one that holds
\* no empty filelist.txt.
C2_NoOutputAfterExhaustion ==
    (BetweenEpisodes /\ last.exhausted) =>
        /\ files[LastReport.target] = Absent
        /\ LET d == dirs[LastReport.target.stem]
           IN  ~d.exists \/ ~(d.filelist.written /\ d.filelist.entries = <<>>)

\* C3: when a segment was not completely fetched by this call of
\* download_m3u8, the episode does not end reported as completed with a file
\* at its target path.
C3_NoSilentMerge ==
    (BetweenEpisodes /\ last.incomplete) =>
        ~(LastReport.res = "completed" /\ files[LastReport.target] # Absent)

\* C4 as amended: a download whose every attempt times out makes exactly 6
\* urlretrieve calls (1 first + 5 retries) before it is recorded as failed,
\* and never more than 5 while it still retries.
C4_SixAttempts ==
    \A d \in Tasks :
        /\ d.pc \in {"unlink", "failed", "fnf", "returned"} => d.tries = 6
        /\ d.pc = "retry" => d.tries \in 1..5

\* A segment download that timed out six times and removed its file.
C4_Witness ==
    /\ pc = "pool"
    /\ \E i \in DOMAIN pool : pool[i].pc = "failed" /\ pool[i].tries = 6

\* C4 as claimed: exactly 5 attempts before the download is recorded as failed.
C4_FiveAttempts ==
    \A d \in Tasks : d.pc \in {"unlink", "failed", "fnf", "returned"} => d.tries = 5

\* C5: a failed playlist fetch never ends the run: the episode is reported
\* failed and the loop goes on, so a run that ends normally has read the whole
\* catalog and reported every episode it took up, and every video episode
\* reported completed, before or after the failure, has its file on disk.
C5_ManifestFailureIsolated ==
    /\ pc = "aborted" => cause # "manifest"
    /\ \A i \in DOMAIN report : report[i].why = "manifest" => report[i].res = "failed"
    /\ pc = "done" => Len(seen) = catalog_len /\ Len(report) = Len(visited)
    /\ \A i \in DOMAIN report :
          (report[i].res = "completed" /\ report[i].target.ext = "mkv")
              => files[report[i].target] # Absent

\* Two video episodes: the playlist of the first could not be fetched, the
\* second was merged all the same.
C5_Witness ==
    /\ pc = "done"
    /\ Len(report) = 2
    /\ report[1].res = "failed" /\ report[1].why = "manifest"
    /\ report[1].target.ext = "mkv"
    /\ report[2].res = "completed" /\ report[2].target.ext = "mkv"
    /\ report[2].target # report[1].target
    /\ files[report[1].target] = Absent
    /\ files[report[2].target] = Merged

\* C6: no failure of an episode keeps the later episodes from being
\* processed: save_show is not left by an exception of an episode while
\* articles of the catalog remain unread.
C6_EpisodeFailuresContained ==
    (pc = "aborted" /\ cause # "meta") => Len(seen) = catalog_len

\* C7: after a run every target file that is there was there before the run,
\* or is a whole audio file or a complete merge.
C7_NoPartialOutput ==
    pc \in {"done", "aborted"} =>
        \A t \in Targets :
            files[t] = files0[t] \/ files[t].st \in {"full", "merged"}

\* C8: as long as every episode the loop took up had its target file before
\* the run, nothing was fetched or tagged, no file changed, and every one of
\* them is reported skipped.
C8_Idempotent ==
    (\A i \in DOMAIN visited : visited[i].existed) =>
        /\ ~dispatched
        /\ files = files0
        /\ pc \notin {"audio", "m3u8_load", "pool", "ffmpeg", "cleanup", "except"}
        /\ Len(report) = Len(visited)
        /\ \A i \in DOMAIN report : report[i].res = "skipped"

\* A run over an audio and a video episode whose files were both there.
C8_Witness ==
    /\ pc = "done"
    /\ Len(visited) = 2
    /\ visited[1].existed /\ visited[2].existed
    /\ report[1].target.ext = "mp3" /\ report[2].target.ext = "mkv"
    /\ report[1].res = "skipped" /\ report[2].res = "skipped"
    /\ ~dispatched

Selected(n) == ~episodes.given \/ n \in episodes.set
SortsVisited == [i \in DOMAIN visited |-> visited[i].sort]

\* C9: the episodes taken up (checked for existence, fetched) are exactly the
\* articles read so far whose int(sort_number) passes the filter, in catalog
\* order; with no filter they are all the articles read.
C9_EpisodeFilter ==
    /\ SortsVisited = SelectSeq(seen, Selected)
    /\ ~episodes.given => SortsVisited = seen
    /\ Len(report) \in {Len(visited) - 1, Len(visited)}

\* Filter {2} over the catalog 1, 2: only episode 2 was taken up.
C9_Witness ==
    /\ pc = "done"
    /\ episodes.given
    /\ seen = <<1, 2>>
    /\ SortsVisited = <<2>>
    /\ Len(report) = 1

\* C10: the URL handed to download_m3u8 is that of a candidate whose integer
\* quality no candidate exceeds and no earlier candidate equals.
C10_BestQualityFirst ==
    (pc = "m3u8_load" /\ media_files # <<>>) =>
        \E i \in DOMAIN media_files :
            /\ video_m3u8 = media_files[i].media_key_full_url
            /\ \A j \in DOMAIN media_files :
                  ToInt(media_files[j].quality) <= ToInt(media_files[i].quality)
            /\ \A j \in 1..(i - 1) :
                  ToInt(media_files[j].quality) < ToInt(media_files[i].quality)

\* Candidates 720, 1080, 1080: the second is handed over.
C10_Witness ==
    /\ pc = "m3u8_load"
    /\ Len(media_files) = 3
    /\ ToInt(media_files[1].quality) = 720
    /\ ToInt(media_files[2].quality) = 1080
    /\ ToInt(media_files[3].quality) = 1080
    /\ video_m3u8 = CandidateUrl(2)

\* C11: no call of download ends by an exception, whatever its attempts did,
\* and one that ran out of retries has left no file.
C11_DownloadNeverRaises ==
    /\ \A d \in Tasks : d.pc \notin {"error", "fnf"}
    /\ (pc = "audio" /\ dl.pc \in {"failed", "returned"}) => files[fname] = Absent

\* C12: a download that ended without success ended as one that ran out of
\* retries does: a failed attempt, whatever its error, is retried up to the
\* bound.
C12_ErrorsRetriedLikeTimeouts ==
    \A d \in Tasks : d.pc \in (Terminal \ {"ok"}) => d.pc \in {"failed", "fnf", "returned"}

\* C13: an episode whose cleanup failed after its merge is reported completed
\* and keeps its merged file.
C13_CleanupFailureNotFatal ==
    (BetweenEpisodes /\ LastReport.why = "cleanup") =>
        /\ LastReport.res = "completed"
        /\ files[LastReport.target] # Absent

\* C14: a failed playlist fetch hands the error to the caller and changes
\* nothing: no target file, no scratch folder, no segment fetch.
C14_ManifestFailureNoEffect ==
    [][(pc = "m3u8_load" /\ pc' # "pool") =>
          /\ pc' = "except" /\ cause' = "manifest"
          /\ files' = files /\ files[fname] = Absent
          /\ dirs' = dirs
          /\ pool' = <<>> /\ ts_list' = <<>>]_vars

\* The playlist could not be fetched while an earlier run's scratch folder
\* stands untouched.
C14_Witness ==
    /\ pc = "except"
    /\ cause = "manifest"
    /\ dirs[fname.stem] = Leftover
    /\ files[fname] = Absent

\* C15: the merge manifest is written and ffmpeg is run only when every
\* segment download of the playlist has ended, in success or in failure.
C15_PoolBarrier ==
    /\ pc \in {"ffmpeg", "cleanup"} =>
          /\ Len(pool) = Len(ts_list)
          /\ \A i \in DOMAIN pool : pool[i].pc \in Terminal
          /\ Scratch.filelist.written
    /\ pc = "pool" => (Scratch.filelist = NoList \/ Scratch.filelist = Leftover.filelist)

\* ffmpeg is about to run over two segments, the first of which ran out of
\* retries after the second was fetched.
C15_Witness ==
    /\ pc = "ffmpeg"
    /\ Len(pool) = 2
    /\ pool[1].pc = "failed"
    /\ pool[2].pc = "ok"
    /\ finished = <<2, 1>>

\* C16: at most max_workers = 10 segment downloads run at once, and only in
\* the pool phase of the one episode the loop is at: every episode taken up
\* before it has been reported.
C16_BoundedPool ==
    /\ Cardinality(InFlight) <= 10
    /\ InFlight # {} => pc = "pool"
    /\ pool # <<>> => (pc \in {"pool", "ffmpeg", "cleanup", "except"}
                        /\ Len(report) = Len(visited) - 1)

\* The second episode's pool: ten segments are being fetched, the eleventh
\* waits for a thread.
C16_Witness ==
    /\ pc = "pool"
    /\ Len(report) = 1
    /\ Cardinality(InFlight) = 10
    /\ pool[11].pc = "queued"

\* C17: when download_m3u8 returns, the target file is there and the scratch
\* folder, with its segment files and filelist.txt, is gone; and it does
\* return when ffmpeg succeeded over a scratch folder that held nothing
\* before the call (in SpecEpisode an earlier run's folders all stand or
\* none does, so the other titles' folders tell).
C17_SuccessCleansUp ==
    /\ (BetweenEpisodes /\ LastReport.res = "completed" /\ LastReport.target.ext = "mkv") =>
          /\ files[LastReport.target] # Absent
          /\ dirs[LastReport.target.stem] = NoDir
    /\ (pc = "except" /\ cause = "cleanup") =>
          \A s \in Stems \ {fname.stem} : dirs[s] = Leftover

\* Every segment was fetched and merged; nothing of the scratch folder is left.
C17_Witness ==
    /\ BetweenEpisodes
    /\ LastReport.res = "completed"
    /\ files[LastReport.target] = Merged
    /\ ~last.incomplete
    /\ \A s \in Stems : dirs[s] = NoDir
    /\ finished = <<>>

\* The episodes for which download_m3u8 was called and has ended.
VideoRuns == {i \in DOMAIN report : report[i].target.ext = "mkv" /\ report[i].res # "skipped"}

\* C18: no two video episodes of a run use the same scratch folder, and the
\* folder an episode's playlist is about to be fetched into holds no segment
\* file and no filelist.txt of another episode.
C18_ScratchDirsDistinct ==
    /\ \A i, j \in VideoRuns : i # j => report[i].target.stem # report[j].target.stem
    /\ (pc = "m3u8_load" /\ report # <<>>) => dirs[fname.stem] = NoDir

\* C19: a target file that was there before the run is as it was, and the
\* file the running episode writes or unlinks was not there before the run.
C19_ExistingUntouched ==
    /\ \A t \in Targets : files0[t] # Absent => files[t] = files0[t]
    /\ fname # NoPath => files0[fname] = Absent

\* The run skipped an episode whose file was there and unlinked the target of
\* a failed video episode; the old files stand.
C19_Witness ==
    /\ pc = "done"
    /\ Len(report) = 2
    /\ report[1].res = "skipped"
    /\ report[2].res = "failed" /\ report[2].why = "merge"
    /\ files[report[1].target] = Old
    /\ files[report[2].target] = Absent

\* C20: the segments of a playlist have scratch files of their own: no two
\* positions of ts_list share a file name, and when ffmpeg is about to run
\* every fetched segment's filelist entry names the file holding it.
C20_ScratchFilesDistinct ==
    /\ \A i, j \in DOMAIN ts_list : i # j => Name(ts_list[i]) # Name(ts_list[j])
    /\ pc = "ffmpeg" =>
          \A i \in DOMAIN pool :
              pool[i].pc = "ok" => Scratch.segs[Scratch.filelist.entries[i]] = Full(ts_list[i])

====
